---- MODULE Spec2Model ----
(***************************************************************************)
(* A model of working-scripts/release_notes_generator/                     *)
(* release_notes_generator.py.                                             *)
(*                                                                         *)
(* The repository the script runs in is the environment: a commit graph    *)
(* (every commit has at most one parent: linear branches with forks and,   *)
(* possibly, unrelated histories) and the release tags in creation order.  *)
(* The script's own state is the catalog `component_tags` that             *)
(* fetch_github_release builds and command_prompt_step1 extends.           *)
(*                                                                         *)
(* Strings the script parses or compares by prefix are sequences of        *)
(* one-character strings; a tag name 'release/<component>/<version>' is    *)
(* the triple <<"release", component, version>> and '' is <<>>.            *)
(***************************************************************************)
EXTENDS Integers, Sequences, FiniteSets, TLC

\* ------------------------------------------------------------------ bounds
\* Number of commits of the repository (commits are 0 .. n-1, numbered in an
\* order in which a parent precedes its children) and largest number of release
\* tags it holds before the run, for the catalog and ancestor resolution (Spec).
NumCommits == 4
MaxTags == 3
\* The same for the runs of the whole operator flow (SpecFlow).
FlowCommits == 4
FlowTags == 1
\* Largest number of commits `git log` lists for one release (SpecNotes).
MaxLog == 2
\* Largest number of lines of the release-notes file found on disk, and
\* number of successive runs of the generator (SpecDoc).
MaxLines == 3
MaxRuns == 3

VARIABLES
    parent,            \* commit graph: parent[c] is c's parent, NoCommit for a root
    repo_tags,         \* the repository's release tags, oldest first
    gen_all_docs,      \* the --all argument
    component_tags,    \* the catalog: <<[component, tags]>> in insertion order
    pc,                \* position of main()
    err,               \* the exception that ended the run, "" when none
    select_component,  \* command_prompt_step1's result
    select_version,
    open_vim,          \* command_prompt_step2: the answer to its question
    gen_next,          \* command_prompt_step2: number of releases generated so far
    commit_log,        \* the commits `git log` listed for the release generated last
    component_text,    \* command_prompt_step2: <<[component, releases]>> generated
    files_written,     \* components whose release-notes.md was written
    git_ops,           \* the git commands of steps 3 and 4 run so far
    run_script,        \* the answers typed at the questions of steps 3 and 4
    \* one pass of command_prompt_step2's loop, ticket by ticket (SpecNotes)
    notes_tag,         \* tags[i], the release
    newest,            \* component == select_component and i == len(tags) - 1
    log_lines,         \* what `git log` lists for the release, and each commit's changes
    github_tickets,    \* fetch_github_tickets' result
    jira_tickets,      \* fetch_jira_tickets' list
    attempt,           \* fetch_jira_tickets: requests made for the current ticket
    sleep_sec,         \* fetch_jira_tickets: the next wait
    responses,         \* the status codes the current ticket's requests got
    waits,             \* the waits (time.sleep) made for the current ticket
    rows,              \* the table rows of the release
    \* the release-notes file of one component over successive runs (SpecDoc)
    release_notes,     \* the text of components/<component>/release-notes.md
    tag_old_summary,   \* grep_old_markdown_summary's result
    generated          \* the texts command_prompt_step2 wrote, run after run

repo == <<parent, repo_tags, gen_all_docs>>
catalog == <<component_tags, select_component, select_version>>
step2 == <<open_vim, gen_next, commit_log, component_text, files_written>>
notes == <<notes_tag, newest, log_lines, github_tickets, jira_tickets, attempt, sleep_sec,
           responses, waits, rows>>
docs == <<release_notes, tag_old_summary, generated>>
vars == <<repo, catalog, pc, err, step2, git_ops, run_script, notes, docs>>

\* ------------------------------------------------------------ the repository
NoCommit == -1

\* Component directories that exist under components/.
ComponentDirs == {<<"a">>, <<"b">>}
\* A name typed at the prompt that has no directory under components/.
NoDirComponent == <<"z">>

Digits == <<"0", "1", "2", "3", "4", "5", "6", "7", "8", "9">>
IsDigit(ch) == \E k \in 1 .. Len(Digits) : Digits[k] = ch

\* The version of the k-th tag created in the repository: 1.0, 1.1, ...
VersionNo(k) == <<"1", ".", Digits[k]>>

\* TAG_NAME.format(component, version)
TAG_NAME(component, version) == <<"release", component, version>>
\* tag_name.split('/')[1]
ComponentOf(tag_name) == tag_name[2]

\* The commits reachable from c by following parents, c included.
RECURSIVE Up(_, _)
Up(par, c) == IF c = NoCommit THEN {} ELSE {c} \cup Up(par, par[c])

\* git merge-base a b: the best common ancestor, NoCommit when the two commits
\* share no history (git then exits with status 1).
MergeBase(par, a, b) ==
    LET common == Up(par, a) \cap Up(par, b)
    IN  IF common = {} THEN NoCommit
        ELSE CHOOSE c \in common : \A d \in common : d \in Up(par, c)

\* get_latest_commit_id: HEAD, the first line of `git log`. The run is made
\* from the most recent commit of the repository.
get_latest_commit_id(par) == CHOOSE c \in DOMAIN par : \A d \in DOMAIN par : d <= c

\* get_first_commit_id: the last commit `git log` of HEAD lists, its root.
get_first_commit_id(par) ==
    CHOOSE c \in Up(par, get_latest_commit_id(par)) : par[c] = NoCommit

\* get_release_tag_names_by_date: the tag names, oldest first.
get_release_tag_names_by_date(tags) == [k \in 1 .. Len(tags) |-> tags[k].tag_name]

\* git rev-list -n 1 tag_name
RevList(tags, tag_name) ==
    tags[CHOOSE k \in 1 .. Len(tags) : tags[k].tag_name = tag_name].tag_commit_id

\* ------------------------------------------------------------- the catalog
\* component_tags is a Python dict (insertion ordered): a sequence of entries
\* [component, tags]. A chain is 1-based here: position 1 is Python index 0.
HasComponent(ct, component) == \E k \in 1 .. Len(ct) : ct[k].component = component
EntryOf(ct, component) == CHOOSE k \in 1 .. Len(ct) : ct[k].component = component
ChainOf(ct, component) == ct[EntryOf(ct, component)].tags
\* component_tags[component] = tags
PutChain(ct, component, tags) ==
    IF HasComponent(ct, component)
    THEN [ct EXCEPT ![EntryOf(ct, component)].tags = tags]
    ELSE Append(ct, [component |-> component, tags |-> tags])

\* The synthetic root entry of a chain.
RootTag(first_commit_id) == [tag_name |-> <<>>, tag_commit_id |-> first_commit_id]

\* fetch_github_release, the grouping loop: the tags tag_names[k ..] added to ct.
RECURSIVE GroupTags(_, _, _, _, _)
GroupTags(ct, tags, tag_names, first_commit_id, k) ==
    IF k > Len(tag_names) THEN ct
    ELSE LET tag_name == tag_names[k]
             component == ComponentOf(tag_name)
             seeded == IF HasComponent(ct, component) THEN ct
                       ELSE PutChain(ct, component, <<RootTag(first_commit_id)>>)
             entry == [tag_name |-> tag_name, tag_commit_id |-> RevList(tags, tag_name)]
         IN  GroupTags(PutChain(seeded, component, Append(ChainOf(seeded, component), entry)),
                       tags, tag_names, first_commit_id, k + 1)

\* The inverted index commit id -> tag name of a chain: a later entry of the
\* chain overwrites an earlier one with the same commit.
commit_id_tag_name(tags) ==
    [c \in {tags[k].tag_commit_id : k \in 1 .. Len(tags)} |->
        LET ks == {k \in 1 .. Len(tags) : tags[k].tag_commit_id = c}
        IN  tags[CHOOSE k \in ks : \A m \in ks : m <= k].tag_name]

\* A faulty variant: The candidate's own name is recorded, whatever commit the
\* merge base is.
AncestorNameOfCandidate(index, tags, j, ancestor_commit_id) == tags[j].tag_name

\* The name recorded for an ancestor commit found in the index.
AncestorName(index, tags, j, ancestor_commit_id) == index[ancestor_commit_id]

\* A faulty variant: The candidate's commit is recorded instead of the merge base.
AncestorCommitOfCandidate(tags, j, ancestor_commit_id) == tags[j].tag_commit_id

\* The commit recorded for the previous release: the merge base itself.
AncestorCommit(tags, j, ancestor_commit_id) == ancestor_commit_id

\* The entry with its link to the previous release set.
WithLink(tag, name, commit) ==
    [tag_name |-> tag.tag_name, tag_commit_id |-> tag.tag_commit_id,
     pre_tag_name |-> name, pre_tag_commit_id |-> commit]

HasLink(tag) == "pre_tag_name" \in DOMAIN tag /\ "pre_tag_commit_id" \in DOMAIN tag

\* The scan of candidates j, j-1, ..., stop for the tag of commit `commit`:
\* "found" with the link, "none" when the candidates are exhausted, "error"
\* when git merge-base fails (subprocess.CalledProcessError).
RECURSIVE Scan(_, _, _, _, _, _)
Scan(par, tags, index, commit, j, stop) ==
    IF j < stop THEN [kind |-> "none"]
    ELSE LET ancestor_commit_id == MergeBase(par, commit, tags[j].tag_commit_id)
         IN  IF ancestor_commit_id = NoCommit THEN [kind |-> "error"]
             ELSE IF ancestor_commit_id \in DOMAIN index
             THEN [kind |-> "found",
                   name |-> AncestorName(index, tags, j, ancestor_commit_id),
                   commit |-> AncestorCommit(tags, j, ancestor_commit_id)]
             ELSE Scan(par, tags, index, commit, j - 1, stop)

\* fetch_github_release, the ancestor loop of one chain: for i in range(1, len(tags)),
\* for j in range(i - 1, -1, -1).
FetchScan(par, tags, i) ==
    Scan(par, tags, commit_id_tag_name(tags), tags[i].tag_commit_id, i - 1, 1)

ResolveChain(par, tags) ==
    [i \in 1 .. Len(tags) |->
        IF i = 1 THEN tags[i]
        ELSE LET r == FetchScan(par, tags, i)
             IN  IF r.kind = "found" THEN WithLink(tags[i], r.name, r.commit) ELSE tags[i]]

ChainFails(par, tags) ==
    \E i \in 2 .. Len(tags) : FetchScan(par, tags, i).kind = "error"

\* ------------------------------------------------------------------ main()
Raise(exception) ==
    /\ pc' = "aborted"
    /\ err' = exception

\* fetch_github_release(), called by main().
FetchGithubRelease ==
    /\ pc = "fetch_github_release"
    /\ UNCHANGED <<repo, select_component, select_version, step2, git_ops, notes, docs, run_script>>
    /\ LET tag_names == get_release_tag_names_by_date(repo_tags)
           grouped == GroupTags(<<>>, repo_tags, tag_names, get_first_commit_id(parent), 1)
       IN  IF Len(tag_names) = 0
           THEN Raise("ValueError") /\ UNCHANGED component_tags
           ELSE IF \E k \in 1 .. Len(grouped) : ChainFails(parent, grouped[k].tags)
           THEN Raise("CalledProcessError") /\ UNCHANGED component_tags
           ELSE /\ component_tags' =
                      [k \in 1 .. Len(grouped) |->
                          [component |-> grouped[k].component,
                           tags |-> ResolveChain(parent, grouped[k].tags)]]
                /\ pc' = "command_prompt_step1"
                /\ UNCHANGED err

\* The repositories of the model. A commit's parent, if any, is an earlier
\* commit; the repository holds at most two unrelated histories, whose roots
\* then are commits 0 and 1.
Graphs(n) ==
    {g \in [0 .. n - 1 -> {NoCommit} \cup (0 .. n - 1)] :
        \A c \in 0 .. n - 1 : g[c] < c /\ (g[c] = NoCommit => c <= 1)}

\* Up to m release tags, the k-th created carrying version 1.(k-1), each
\* on any commit; they are releases of component a, but for at most one
\* release of component b.
TagComponents(n) ==
    {[k \in 1 .. n |-> <<"a">>]}
        \cup {[k \in 1 .. n |-> IF k = m THEN <<"b">> ELSE <<"a">>] : m \in 1 .. n}

TagLists(n, m) ==
    UNION {{[k \in 1 .. len |->
                [tag_name |-> TAG_NAME(comp[k], VersionNo(k)), tag_commit_id |-> commit[k]]] :
            comp \in TagComponents(len), commit \in [1 .. len -> 0 .. n - 1]} : len \in 0 .. m}

\* ------------------------------------------------- command_prompt_step1
\* Whether w matches (?:[0-9]+\.)+[0-9]+ as a whole.
MatchesVersion(w) ==
    /\ Len(w) > 0
    /\ \A k \in 1 .. Len(w) : IsDigit(w[k]) \/ w[k] = "."
    /\ IsDigit(w[1]) /\ IsDigit(w[Len(w)])
    /\ \E k \in 1 .. Len(w) : w[k] = "."
    /\ \A k \in 1 .. Len(w) - 1 : ~(w[k] = "." /\ w[k + 1] = ".")

\* re.findall(VERSION_REGEX, version)[0]: the leftmost match, the longest at
\* its start; '' (the alternative `$`) when the version pattern matches nowhere.
FindVersion(version) ==
    LET spans == {se \in (1 .. Len(version)) \X (1 .. Len(version)) :
                     se[1] <= se[2] /\ MatchesVersion(SubSeq(version, se[1], se[2]))}
    IN  IF spans = {} THEN <<>>
        ELSE LET best == CHOOSE se \in spans :
                            \A o \in spans : se[1] < o[1] \/ (se[1] = o[1] /\ se[2] >= o[2])
             IN  SubSeq(version, best[1], best[2])

\* The first chain position the scan of command_prompt_step1 does not visit:
\* range(len(tags) - 2, 0, -1) ends before Python index 0.
Step1ScanStop == 2

\* command_prompt_step1, the ancestor scan of the entry just appended.
Step1Scan(par, tags, latest_commit_id) ==
    Scan(par, tags, commit_id_tag_name(tags), latest_commit_id, Len(tags) - 1, Step1ScanStop)

\* What the operator may type as a version: the version of the oldest tag, a
\* version no tag carries, and a number without a dot.
VersionInputs(tags) ==
    {VersionNo(1), VersionNo(Len(tags) + 1), <<"1">>}

\* All names `git tag` lists (get_release_tag_names_by_version).
get_release_tag_names_by_version(tags) == {tags[k].tag_name : k \in 1 .. Len(tags)}

\* The option typed is no integer, or none of 0 .. idx.
Step1BadOption ==
    /\ pc = "command_prompt_step1"
    /\ Raise("ValueError")
    /\ UNCHANGED <<repo, catalog, step2, git_ops, notes, docs, run_script>>

\* Option 0: release a new component.
Step1NewComponent ==
    /\ pc = "command_prompt_step1"
    /\ UNCHANGED <<repo, step2, git_ops, notes, docs, run_script>>
    /\ \E component \in ComponentDirs \cup {NoDirComponent}, version \in VersionInputs(repo_tags) :
          IF component \notin ComponentDirs
          THEN Raise("OSError")
               /\ UNCHANGED <<component_tags, select_component, select_version>>
          ELSE IF version # FindVersion(version)
          THEN Raise("ValueError")
               /\ UNCHANGED <<component_tags, select_component, select_version>>
          ELSE LET first_commit_id == get_first_commit_id(parent)
                   latest_commit_id == get_latest_commit_id(parent)
               IN  /\ component_tags' =
                          PutChain(component_tags, component,
                                   <<RootTag(first_commit_id),
                                     WithLink([tag_name |-> TAG_NAME(component, version),
                                               tag_commit_id |-> latest_commit_id],
                                              <<>>, first_commit_id)>>)
                   /\ select_component' = component
                   /\ select_version' = version
                   /\ pc' = "command_prompt_step2"
                   /\ UNCHANGED err

\* Option 1 .. idx: add a version to a component of the catalog.
Step1AddVersion ==
    /\ pc = "command_prompt_step1"
    /\ UNCHANGED <<repo, step2, git_ops, notes, docs, run_script>>
    /\ \E option_number \in 1 .. Len(component_tags), version \in VersionInputs(repo_tags) :
          LET component == component_tags[option_number].component
              tag_names == get_release_tag_names_by_version(repo_tags)
              latest_commit_id == get_latest_commit_id(parent)
              tags == Append(ChainOf(component_tags, component),
                             [tag_name |-> TAG_NAME(component, version),
                              tag_commit_id |-> latest_commit_id])
              r == Step1Scan(parent, tags, latest_commit_id)
          IN  IF version # FindVersion(version) \/ TAG_NAME(component, version) \in tag_names
              THEN Raise("ValueError")
                   /\ UNCHANGED <<component_tags, select_component, select_version>>
              ELSE IF r.kind = "error"
              THEN /\ Raise("CalledProcessError")
                   /\ component_tags' = PutChain(component_tags, component, tags)
                   /\ UNCHANGED <<select_component, select_version>>
              ELSE /\ component_tags' =
                          PutChain(component_tags, component,
                                   IF r.kind = "found"
                                   THEN [tags EXCEPT ![Len(tags)] = WithLink(@, r.name, r.commit)]
                                   ELSE tags)
                   /\ select_component' = component
                   /\ select_version' = version
                   /\ pc' = "command_prompt_step2"
                   /\ UNCHANGED err

CommandPromptStep1 == Step1BadOption \/ Step1NewComponent \/ Step1AddVersion

\* ------------------------------------------------- command_prompt_step2
\* What the operator may answer to a [Y/N] question, stripped and lowered.
Answers == {"y", "yes", "n", "no", "maybe"}
Allowed == {"y", "n", "yes", "no"}
\* A faulty variant: any allowed answer counts as yes.
AnyAllowed == {"y", "n", "yes", "no"}
\* if ... in ['y', 'yes']
Yes == {"y", "yes"}

\* The releases command_prompt_step2 generates, in its order: the components
\* in catalog order (only the selected one unless --all), the versions of each
\* from the latest to the oldest: for i in range(len(tags) - 1, 0, -1).
\* A faulty variant: The loop over the versions stops one short, at range(len - 1, 1, -1).
RECURSIVE ReleasesFromButOldest(_, _, _, _)
ReleasesFromButOldest(ct, select, all, k) ==
    IF k > Len(ct) THEN <<>>
    ELSE (IF ~all /\ ct[k].component # select THEN <<>>
          ELSE [n \in 1 .. Len(ct[k].tags) - 2 |-> <<k, Len(ct[k].tags) + 1 - n>>])
         \o ReleasesFromButOldest(ct, select, all, k + 1)

RECURSIVE ReleasesFrom(_, _, _, _)
ReleasesFrom(ct, select, all, k) ==
    IF k > Len(ct) THEN <<>>
    ELSE (IF ~all /\ ct[k].component # select THEN <<>>
          ELSE [n \in 1 .. Len(ct[k].tags) - 1 |-> <<k, Len(ct[k].tags) + 1 - n>>])
         \o ReleasesFrom(ct, select, all, k + 1)

ReleaseOrder == ReleasesFrom(component_tags, select_component, gen_all_docs, 1)

\* fetch_github_tickets: the commits of
\* git log <pre_tag_commit_id>...<tag_commit_id>, those reachable from one of
\* the two commits and not from both.
LogRange(par, pre_tag_commit_id, tag_commit_id) ==
    (Up(par, pre_tag_commit_id) \cup Up(par, tag_commit_id))
        \ (Up(par, pre_tag_commit_id) \cap Up(par, tag_commit_id))

\* component_text[component] += text, the text of a release kept as the tag
\* and the previous release it names.
AddText(texts, component, tag) ==
    LET text == [tag_name |-> tag.tag_name, pre_tag_name |-> tag.pre_tag_name]
    IN  IF \E k \in 1 .. Len(texts) : texts[k].component = component
        THEN [texts EXCEPT ![CHOOSE k \in 1 .. Len(texts) : texts[k].component = component]
                               .releases = Append(@, text)]
        ELSE Append(texts, [component |-> component, releases |-> <<text>>])

\* After the last file, the editor is launched if the operator asked for it.
AfterFiles(answer) == IF answer \in Yes THEN "editor" ELSE "command_prompt_step3"

\* The question, the check of the work tree and grep_old_markdown_summary.
Step2Begin ==
    /\ pc = "command_prompt_step2"
    /\ UNCHANGED <<repo, catalog, gen_next, commit_log, component_text, files_written, git_ops, notes, docs, run_script>>
    /\ \E answer \in Answers, tree \in {"clean", "untracked", "uncommitted"} :
          IF answer \notin Allowed \/ tree # "clean"
          THEN Raise("ValueError") /\ UNCHANGED open_vim
          ELSE /\ open_vim' = answer
               /\ pc' = IF Len(ReleaseOrder) = 0 THEN AfterFiles(answer) ELSE "generate"
               /\ UNCHANGED err

\* One pass of the generation loop: the notes of one release. The tickets of
\* the release are looked up in the ticket service, which may fail (SpecNotes
\* models the pass ticket by ticket).
Step2Generate ==
    /\ pc = "generate"
    /\ UNCHANGED <<repo, catalog, open_vim, files_written, git_ops, notes, docs, run_script>>
    /\ LET release == ReleaseOrder[gen_next + 1]
           component == component_tags[release[1]].component
           tag == component_tags[release[1]].tags[release[2]]
       IN  IF "pre_tag_commit_id" \notin DOMAIN tag
           THEN Raise("KeyError") /\ UNCHANGED <<gen_next, commit_log, component_text>>
           ELSE LET log == LogRange(parent, tag.pre_tag_commit_id, tag.tag_commit_id)
                IN  /\ commit_log' = log
                    /\ \/ /\ log # {}
                          /\ Raise("HTTPError")
                          /\ UNCHANGED <<gen_next, component_text>>
                       \/ /\ component_text' = AddText(component_text, component, tag)
                          /\ gen_next' = gen_next + 1
                          /\ pc' = IF gen_next + 1 = Len(ReleaseOrder)
                                   THEN "write_files" ELSE "generate"
                          /\ UNCHANGED err

\* One pass of the writing loop: the release-notes.md of one component.
Step2WriteFile ==
    /\ pc = "write_files"
    /\ UNCHANGED <<repo, catalog, open_vim, gen_next, commit_log, component_text, git_ops, err, notes, docs, run_script>>
    /\ LET k == Cardinality(files_written) + 1
       IN  /\ files_written' = files_written \cup {component_text[k].component}
           /\ pc' = IF k = Len(component_text) THEN AfterFiles(open_vim) ELSE "write_files"

\* The editor, which may exit with an error.
Step2Editor ==
    /\ pc = "editor"
    /\ UNCHANGED <<repo, catalog, step2, git_ops, notes, docs, run_script>>
    /\ \/ pc' = "command_prompt_step3" /\ UNCHANGED err
       \/ Raise("IOError")

\* ---------------------------------- the notes of one release (lines 498-538)
StartsWith(line, prefix) ==
    Len(prefix) <= Len(line) /\ SubSeq(line, 1, Len(prefix)) = prefix

\* os.path.join('components', tag['tag_name'].strip('/').split('/')[1])
dir_path(tag_name) == <<"components", "/">> \o ComponentOf(tag_name)

IsUpper(ch) ==
    ch \in {"A", "B", "C", "D", "E", "F", "G", "H", "I", "J", "K", "L", "M", "N", "O", "P",
            "Q", "R", "S", "T", "U", "V", "W", "X", "Y", "Z"}

\* The last position of the run of digits of the text that starts at p.
DigitRunEnd(text, p) ==
    CHOOSE q \in p .. Len(text) :
        /\ \A i \in p .. q : IsDigit(text[i])
        /\ q = Len(text) \/ ~IsDigit(text[q + 1])

\* re.findall(FT_REGEX, line)[0]: the leftmost [A-Z]{2}-[0-9]+ of the line,
\* '' when there is none.
FindFt(line) ==
    LET starts == {p \in 1 .. Len(line) - 3 :
                      /\ IsUpper(line[p]) /\ IsUpper(line[p + 1])
                      /\ line[p + 2] = "-" /\ IsDigit(line[p + 3])}
    IN  IF starts = {} THEN <<>>
        ELSE LET p == CHOOSE s \in starts : \A o \in starts : s <= o
             IN  SubSeq(line, p, DigitRunEnd(line, p + 3))

\* re.findall(GITHUB_PULL_ID_REGEX, line)[0].strip().strip('#'): the digits of
\* the leftmost ' #[0-9]+ ' of the line, '' when there is none.
FindPullId(line) ==
    LET starts == {p \in 1 .. Len(line) - 3 :
                      /\ line[p] = " " /\ line[p + 1] = "#" /\ IsDigit(line[p + 2])
                      /\ DigitRunEnd(line, p + 2) < Len(line)
                      /\ line[DigitRunEnd(line, p + 2) + 1] = " "}
    IN  IF starts = {} THEN <<>>
        ELSE LET p == CHOOSE s \in starts : \A o \in starts : s <= o
             IN  SubSeq(line, p + 2, DigitRunEnd(line, p + 2))

\* str.strip(chars)
Strip(text, chars) ==
    LET kept == {k \in 1 .. Len(text) : text[k] \notin chars}
    IN  IF kept = {} THEN <<>>
        ELSE SubSeq(text, CHOOSE k \in kept : \A m \in kept : k <= m,
                          CHOOSE k \in kept : \A m \in kept : m <= k)

\* date, commit_id, title = line.strip('"').strip().split(' ', 2)
SplitLine(line) ==
    LET text == Strip(Strip(line, {"\""}), {" ", "\n"})
        blanks == {k \in 1 .. Len(text) : text[k] = " "}
        first == CHOOSE k \in blanks : \A m \in blanks : k <= m
        second == CHOOSE k \in blanks \ {first} : \A m \in blanks \ {first} : k <= m
    IN  [date |-> SubSeq(text, 1, first - 1),
         commit_id |-> SubSeq(text, first + 1, second - 1),
         title |-> SubSeq(text, second + 1, Len(text))]

\* git log --format="%ad %H %s" --date=short: the line of a commit.
GitLogLine(commit_id, subject) ==
    <<"\"", "2020-01-01", " ">> \o commit_id \o <<" ">> \o subject \o <<"\"">>

\* git show --stat <commit>, cut into lines and each stripped: the commit's
\* head, its message and, when it changes files, their paths and the summary.
GitShowStat(commit_id, subject, paths) ==
    <<<<"commit", " ">> \o commit_id, <<"Author:">>, <<"Date:">>, <<>>, subject>>
        \o (IF paths = <<>> THEN <<>>
            ELSE <<<<>>>> \o [k \in 1 .. Len(paths) |-> paths[k] \o <<" | 2 +-">>]
                          \o <<<<"files changed">>>>)

\* for f in files[::-1]: the lines from the last one up, to the first empty
\* line; whether one of them starts with the directory.
RECURSIVE FileChanged(_, _, _)
FileChanged(files, k, dir) ==
    IF k < 1 THEN FALSE
    ELSE IF files[k] = <<>> THEN FALSE
    ELSE IF StartsWith(files[k], dir) THEN TRUE
    ELSE FileChanged(files, k - 1, dir)

\* fetch_github_tickets: the tickets of the commits k .. of the log.
RECURSIVE GithubTickets(_, _, _)
GithubTickets(commits, tag_name, k) ==
    IF k > Len(commits) THEN <<>>
    ELSE LET line == GitLogLine(commits[k].commit_id, commits[k].subject)
             parts == SplitLine(line)
             files == GitShowStat(parts.commit_id, commits[k].subject, commits[k].paths)
             ticket == [date |-> parts.date, commit_id |-> parts.commit_id,
                        title |-> parts.title, ft |-> FindFt(line),
                        pull_id |-> FindPullId(line)]
         IN  (IF FileChanged(files, Len(files), dir_path(tag_name)) THEN <<ticket>> ELSE <<>>)
             \o GithubTickets(commits, tag_name, k + 1)

\* fts = [ticket['ft'] for ticket in github_tickets]
Fts(tickets) == [k \in 1 .. Len(tickets) |-> tickets[k].ft]

\* The record of a commit that names no issue.
EmptyJira ==
    [summary |-> <<>>, assignee_name |-> <<>>, priority_name |-> <<>>, jira_url |-> <<>>]

\* What the ticket service answers with status 200 for ft: the issue's fields,
\* the assignee's name being empty for an issue nobody is assigned to.
IssueFields(ft) ==
    {[summary |-> <<"summary", ft>>, assignee |-> a, priority |-> <<"priority", ft>>] :
        a \in {<<>>, <<"assignee", ft>>}}

\* The record made of the ticket service's answer for ft.
JiraRecord(ft, data) ==
    [summary |-> data.summary,
     assignee_name |-> IF data.assignee # <<>> THEN data.assignee ELSE <<>>,
     priority_name |-> data.priority,
     jira_url |-> <<"JIRA_TICKET_URL", ft>>]

HTTP_OK == 200
StatusCodes == {HTTP_OK, 404, 503}
\* for _ in range(3)
RetryLimit == 3
\* sleep_sec = 2
FirstSleep == 2

\* A faulty variant: The wait is not doubled.
SameSleep(sec) == sec

\* sleep_sec *= 2
NextSleep(sec) == sec * 2

\* A faulty variant: The dummy ticket is appended.
AppendDummy(tickets, dummy) == tickets \o <<dummy>>

\* tickets.insert(0, dummy)
InsertDummy(tickets, dummy) == <<dummy>> \o tickets

\* The dummy ticket of the release being made.
DummyTicket(tag_name) ==
    [date |-> <<>>, commit_id |-> <<>>, title |-> <<"Release", tag_name>>, ft |-> <<>>,
     pull_id |-> <<>>,
     priority_name |-> <<>>, assignee_name |-> <<>>]

\* {**github_tickets[i], **jira_tickets[i]}
Merge(github, jira) ==
    [date |-> github.date, commit_id |-> github.commit_id, title |-> github.title,
     ft |-> github.ft,
     pull_id |-> github.pull_id, summary |-> jira.summary,
     assignee_name |-> jira.assignee_name, priority_name |-> jira.priority_name,
     jira_url |-> jira.jira_url]

\* ticket['commit_id'][:7]
ShortId(commit_id) ==
    SubSeq(commit_id, 1, IF Len(commit_id) < 7 THEN Len(commit_id) ELSE 7)

\* The row of a ticket: Priority, Ticket, Summary, Assignee, Github, JIRA.
Row(ticket) ==
    <<ticket.priority_name,
      ticket.ft,
      IF ticket.ft # <<>> THEN ticket.summary ELSE ticket.title,
      ticket.assignee_name,
      IF ticket.ft # <<>> /\ ticket.pull_id # <<>>
      THEN <<<<"#">> \o ticket.pull_id, "GITHUB_PULL_URL", ticket.pull_id>>
      ELSE <<ShortId(ticket.commit_id), "GITHUB_COMMIT_URL", ticket.commit_id>>,
      <<ticket.ft, "JIRA_TICKET_URL", ticket.ft>>>>

Headers == <<"Priority", "Ticket", "Summary", "Assignee", "Github", "JIRA">>

\* fetch_github_tickets(tags[i])
NotesFetchGithub ==
    /\ pc = "fetch_github_tickets"
    /\ github_tickets' = GithubTickets(log_lines, notes_tag.tag_name, 1)
    /\ pc' = "fetch_jira_tickets"
    /\ sleep_sec' = 0
    /\ UNCHANGED <<repo, catalog, err, step2, git_ops, docs, run_script, notes_tag, newest, log_lines, jira_tickets,
                   attempt, responses, waits, rows>>

\* fetch_jira_tickets, a pass for a commit that names no issue.
NotesJiraNoIssue ==
    /\ pc = "fetch_jira_tickets"
    /\ Len(jira_tickets) < Len(github_tickets)
    /\ Fts(github_tickets)[Len(jira_tickets) + 1] = <<>>
    /\ jira_tickets' = Append(jira_tickets, EmptyJira)
    /\ UNCHANGED <<repo, catalog, pc, err, step2, git_ops, docs, run_script, notes_tag, newest, log_lines,
                   github_tickets, attempt, sleep_sec, responses, waits, rows>>

\* fetch_jira_tickets, one request for the current issue and what follows it:
\* the record appended on status 200, else the wait and, after the last
\* attempt, the error.
NotesJiraRequest ==
    /\ pc = "fetch_jira_tickets"
    /\ Len(jira_tickets) < Len(github_tickets)
    /\ Fts(github_tickets)[Len(jira_tickets) + 1] # <<>>
    /\ UNCHANGED <<repo, catalog, step2, git_ops, docs, run_script, notes_tag, newest, log_lines, github_tickets, rows>>
    /\ \E status_code \in StatusCodes,
          data \in IssueFields(Fts(github_tickets)[Len(jira_tickets) + 1]) :
          LET ft == Fts(github_tickets)[Len(jira_tickets) + 1]
              sec == IF attempt = 0 THEN FirstSleep ELSE sleep_sec
          IN  /\ responses' = (IF attempt = 0 THEN <<>> ELSE responses) \o <<status_code>>
              /\ IF status_code = HTTP_OK
                 THEN /\ jira_tickets' = Append(jira_tickets, JiraRecord(ft, data))
                      /\ attempt' = 0
                      /\ sleep_sec' = sec
                      /\ waits' = IF attempt = 0 THEN <<>> ELSE waits
                      /\ UNCHANGED <<pc, err>>
                 ELSE /\ waits' = (IF attempt = 0 THEN <<>> ELSE waits) \o <<sec>>
                      /\ sleep_sec' = NextSleep(sec)
                      /\ UNCHANGED jira_tickets
                      /\ IF attempt + 1 = RetryLimit
                         THEN Raise("HTTPError") /\ UNCHANGED attempt
                         ELSE attempt' = attempt + 1 /\ UNCHANGED <<pc, err>>

\* The merge of the two lists, the dummy ticket, the rows and the check of
\* generate_markdown_text.
NotesBuildRows ==
    /\ pc = "fetch_jira_tickets"
    /\ Len(jira_tickets) = Len(github_tickets)
    /\ UNCHANGED <<repo, catalog, step2, git_ops, docs, run_script, notes_tag, newest, log_lines, github_tickets,
                   jira_tickets, attempt, sleep_sec, responses, waits>>
    /\ LET merged == [k \in 1 .. Len(github_tickets) |->
                         Merge(github_tickets[k], jira_tickets[k])]
           tickets == IF newest THEN InsertDummy(merged, DummyTicket(notes_tag.tag_name)) ELSE merged
           built == [k \in 1 .. Len(tickets) |-> Row(tickets[k])]
       IN  IF \E k \in 1 .. Len(built) : Len(built[k]) # Len(Headers)
           THEN Raise("ValueError") /\ UNCHANGED rows
           ELSE rows' = built /\ pc' = "generated" /\ UNCHANGED err

\* ------------------------------------- the summary blocks (lines 264-344)
\* A text is a sequence of tokens <<kind, tag name>>: a newline, a blank, a
\* run of other characters, or one of the two markers with the tag it names.
NL == <<"\n", <<>>>>
SP == <<" ", <<>>>>
Chars(what) == <<what, <<>>>>
\* '<!--Summary Block; {}; Don't modify/delete this comment.-->'
BlockStart(tag_name) == <<"<!--Summary Block;", tag_name>>
\* '<!--Summary Block End; {}; Don't modify/delete this comment.-->'
BlockEnd(tag_name) == <<"<!--Summary Block End;", tag_name>>

IsSpace(token) == token \in {NL, SP}

\* f.readlines(): the lines of the text, each with its newline.
ReadLines(text) ==
    LET ends == {k \in 1 .. Len(text) : text[k] = NL \/ k = Len(text)}
        nth(n) == CHOOSE k \in ends : Cardinality({e \in ends : e <= k}) = n
    IN  [n \in 1 .. Cardinality(ends) |->
            SubSeq(text, IF n = 1 THEN 1 ELSE nth(n - 1) + 1, nth(n))]

\* str.lstrip()
LStrip(text) ==
    LET kept == {k \in 1 .. Len(text) : ~IsSpace(text[k])}
    IN  IF kept = {} THEN <<>>
        ELSE SubSeq(text, CHOOSE k \in kept : \A m \in kept : k <= m, Len(text))

\* line.startswith(marker)
LineStartsWith(line, marker) == line # <<>> /\ line[1][1] = marker

\* No summary block is open (tag = None).
NoTag == <<"None">>

\* tag_summary[tag] = value
SetSummary(tag_summary, tag_name, value) ==
    [t \in DOMAIN tag_summary \cup {tag_name} |->
        IF t = tag_name THEN value ELSE tag_summary[t]]

\* grep_old_markdown_summary, the loop over the lines k .. of one file.
RECURSIVE GrepLines(_, _, _, _)
GrepLines(lines, k, open, tag_summary) ==
    IF k > Len(lines) THEN tag_summary
    ELSE LET line == lines[k]
             now == IF LineStartsWith(line, "<!--Summary Block End;") THEN NoTag ELSE open
             added == IF now # NoTag
                      THEN [tag_summary EXCEPT ![now] = @ \o line]
                      ELSE tag_summary
         IN  IF LineStartsWith(line, "<!--Summary Block;")
             THEN GrepLines(lines, k + 1, line[1][2], SetSummary(added, line[1][2], <<>>))
             ELSE GrepLines(lines, k + 1, now, added)

\* No release-notes.md in the component's directory.
NoFile == <<<<"no file", <<>>>>>>

\* grep_old_markdown_summary() for the one component of the model.
grep_old_markdown_summary(file) ==
    LET found == IF file = NoFile THEN <<>>
                 ELSE GrepLines(ReadLines(file), 1, NoTag, <<>>)
    IN  [t \in DOMAIN found |-> LStrip(found[t])]

\* The table and what follows it in the text of a release.
TableText(tag_name) ==
    <<Chars("| table |"), NL, NL, Chars("Previous Release"), NL, NL, Chars("git diff"), NL>>

\* generate_markdown_text(release_date, headers, old_summary, rows, tag)
generate_markdown_text(old_summary, tag_name) ==
    <<NL, Chars("## version date"), NL, NL, BlockStart(tag_name), NL, NL>>
        \o old_summary
        \o <<BlockEnd(tag_name), NL, NL>>
        \o TableText(tag_name)

\* The releases of the component, the latest first.
DocTags == <<TAG_NAME(<<"a">>, VersionNo(2)), TAG_NAME(<<"a">>, VersionNo(1))>>

\* tag_old_summary[tag_name] if tag_name in tag_old_summary, else the empty text
OldSummary(summaries, tag_name) ==
    IF tag_name \in DOMAIN summaries THEN summaries[tag_name] ELSE <<>>

\* command_prompt_step2: the text of the component, its title and the text of
\* each release from the latest to the oldest.
RECURSIVE ComponentText(_, _)
ComponentText(summaries, k) ==
    IF k > Len(DocTags) THEN <<>>
    ELSE generate_markdown_text(OldSummary(summaries, DocTags[k]), DocTags[k])
            \o ComponentText(summaries, k + 1)

\* command_prompt_step2, its call of grep_old_markdown_summary.
DocGrep ==
    /\ pc = "grep_old_markdown_summary"
    /\ tag_old_summary' = grep_old_markdown_summary(release_notes)
    /\ pc' = "generate_markdown_text"
    /\ UNCHANGED <<repo, catalog, err, step2, git_ops, run_script, notes, release_notes, generated>>

\* command_prompt_step2, the generation of the component's text and its
\* writing into the file; the next run of the generator then starts.
DocGenerate ==
    /\ pc = "generate_markdown_text"
    /\ LET text == <<Chars("# [component](url)"), NL, NL>> \o ComponentText(tag_old_summary, 1)
       IN  /\ release_notes' = text
           /\ generated' = Append(generated, text)
    /\ pc' = IF Len(generated) + 1 < MaxRuns THEN "grep_old_markdown_summary" ELSE "done"
    /\ UNCHANGED <<repo, catalog, err, step2, git_ops, run_script, notes, tag_old_summary>>

\* ------------------------------------------- command_prompt_step3_step4
\* A question whose answer yes leads to `yes`, no to `no`.
Ask(at, yes, no) ==
    /\ pc = at
    /\ UNCHANGED <<repo, catalog, step2, git_ops, notes, docs>>
    /\ \E answer \in Answers :
          /\ run_script' = Append(run_script, answer)
          /\ IF answer \notin Allowed THEN Raise("ValueError")
             ELSE /\ pc' = IF answer \in Yes THEN yes ELSE no
                  /\ UNCHANGED err

\* A git command run with subprocess.check_output, which may fail: when it
\* succeeds, the repository has the commits and the tags given.
Git(at, command, then, commits, tags) ==
    /\ pc = at
    /\ UNCHANGED <<gen_all_docs, catalog, step2, notes, docs, run_script>>
    /\ \/ /\ git_ops' = Append(git_ops, command)
          /\ parent' = commits
          /\ repo_tags' = tags
          /\ pc' = then
          /\ UNCHANGED err
       \/ Raise("CalledProcessError") /\ UNCHANGED <<git_ops, parent, repo_tags>>

\* git commit: a new commit on top of the latest one.
Committed(par) ==
    LET new == get_latest_commit_id(par) + 1
    IN  [c \in DOMAIN par \cup {new} |-> IF c = new THEN get_latest_commit_id(par) ELSE par[c]]

\* git tag <tag>: the tag, on the latest commit.
Tagged(par, tags, tag_name) ==
    Append(tags, [tag_name |-> tag_name, tag_commit_id |-> get_latest_commit_id(par)])

Step3Ask == Ask("command_prompt_step3", "git_add", "done")
GitAdd == Git("git_add", "add", "git_commit", parent, repo_tags)
GitCommit == Git("git_commit", "commit", "git_tag", Committed(parent), repo_tags)
\* git tag fails when the repository has a tag of the name.
GitTag ==
    LET tag_name == TAG_NAME(select_component, select_version)
    IN  IF tag_name \in get_release_tag_names_by_version(repo_tags)
        THEN /\ pc = "git_tag"
             /\ Raise("CalledProcessError")
             /\ UNCHANGED <<repo, catalog, step2, git_ops, notes, docs, run_script>>
        ELSE Git("git_tag", "tag", "command_prompt_step4", parent,
                 Tagged(parent, repo_tags, tag_name))
Step4Ask == Ask("command_prompt_step4", "git_push_branch", "done")
GitPushBranch == Git("git_push_branch", "push_branch", "git_push_tag", parent, repo_tags)
GitPushTag == Git("git_push_tag", "push_tag", "done", parent, repo_tags)

\* ------------------------------------------------------------------ specs
\* The variables of the pass over one release, outside SpecNotes.
NotesIdle ==
    /\ notes_tag = RootTag(0)
    /\ newest = FALSE
    /\ log_lines = <<>>
    /\ github_tickets = <<>>
    /\ jira_tickets = <<>>
    /\ attempt = 0
    /\ sleep_sec = 0
    /\ responses = <<>>
    /\ waits = <<>>
    /\ rows = <<>>

\* The variables of the release-notes file, outside SpecDoc.
DocsIdle ==
    /\ release_notes = <<>>
    /\ tag_old_summary = <<>>
    /\ generated = <<>>

\* main() before fetch_github_release, in a repository of n commits and up to
\* m release tags.
InitRepo(n, m, all) ==
    /\ parent \in Graphs(n)
    /\ repo_tags \in TagLists(n, m)
    /\ gen_all_docs \in all
    /\ component_tags = <<>>
    /\ pc = "fetch_github_release"
    /\ err = ""
    /\ select_component = <<>>
    /\ select_version = <<>>
    /\ open_vim = ""
    /\ gen_next = 0
    /\ commit_log = {}
    /\ component_text = <<>>
    /\ files_written = {}
    /\ git_ops = <<>>
    /\ run_script = <<>>
    /\ NotesIdle
    /\ DocsIdle

\* Catalog and ancestor resolution: main() up to the return of
\* command_prompt_step1.
Init == InitRepo(NumCommits, MaxTags, {FALSE})

Next == FetchGithubRelease \/ CommandPromptStep1

Spec == Init /\ [][Next]_vars

\* The whole of main(), in smaller repositories.
InitFlow == InitRepo(FlowCommits, FlowTags, BOOLEAN)

NextFlow ==
    \/ FetchGithubRelease
    \/ CommandPromptStep1
    \/ Step2Begin
    \/ Step2Generate
    \/ Step2WriteFile
    \/ Step2Editor
    \/ Step3Ask
    \/ GitAdd
    \/ GitCommit
    \/ GitTag
    \/ Step4Ask
    \/ GitPushBranch
    \/ GitPushTag

SpecFlow == InitFlow /\ [][NextFlow]_vars

\* The notes of one release: a resolved tag of component a, what git log and
\* git show report for its range, and whether it is the release being made.
ChangedPaths ==
    LET in_a == <<"components", "/", "a", "/", "f">>
        in_ax == <<"components", "/", "a", "x", "/", "f">>
        other == <<"docs", "/", "f">>
    IN  {<<>>, <<in_a>>, <<in_ax>>, <<other>>, <<in_a, other>>, <<other, in_ax>>}

\* The id of the k-th commit of the log.
CommitId(k) == <<"d", "f", "c", "7", "3", "0", Digits[k + 1], "f">>

\* The subjects of the k-th commit: without or with an issue, with an issue
\* and a pull request, and one that begins with the name of a directory.
Subjects(k) ==
    {<<"f", "i", "x">>,
     <<"F", "T", "-", "1", " ", "f", "i", "x">>,
     <<"F", "T", "-", "1", " ", "f", "i", "x", " ", "#", Digits[k + 1], " ", "o", "k">>,
     <<"components", "/", "a", ":", " ", "b", "u", "m", "p">>}

LogLines(n) ==
    UNION {{[k \in 1 .. len |->
                [commit_id |-> CommitId(k), subject |-> f[k][1], paths |-> f[k][2]]] :
            f \in {g \in [1 .. len -> (UNION {Subjects(k) : k \in 1 .. n}) \X ChangedPaths] :
                      \A k \in 1 .. len : g[k][1] \in Subjects(k)}} : len \in 0 .. n}

InitNotes ==
    /\ parent = [c \in {0} |-> NoCommit]
    /\ repo_tags = <<>>
    /\ gen_all_docs = FALSE
    /\ component_tags = <<>>
    /\ pc = "fetch_github_tickets"
    /\ err = ""
    /\ select_component = <<>>
    /\ select_version = <<>>
    /\ open_vim = ""
    /\ gen_next = 0
    /\ commit_log = {}
    /\ component_text = <<>>
    /\ files_written = {}
    /\ git_ops = <<>>
    /\ run_script = <<>>
    /\ notes_tag = WithLink([tag_name |-> TAG_NAME(<<"a">>, VersionNo(1)), tag_commit_id |-> 0],
                      <<>>, 0)
    /\ newest \in BOOLEAN
    /\ log_lines \in LogLines(MaxLog)
    /\ github_tickets = <<>>
    /\ jira_tickets = <<>>
    /\ attempt = 0
    /\ sleep_sec = 0
    /\ responses = <<>>
    /\ waits = <<>>
    /\ rows = <<>>
    /\ DocsIdle

NextNotes == NotesFetchGithub \/ NotesJiraNoIssue \/ NotesJiraRequest \/ NotesBuildRows

SpecNotes == InitNotes /\ [][NextNotes]_vars

\* The release-notes file over successive runs: the file found on disk by the
\* first run is any text an editor can leave, of at most n lines.
FileLines ==
    {<<>>, <<Chars("text")>>, <<SP, Chars("text")>>}
        \cup {<<BlockStart(DocTags[k])>> : k \in 1 .. Len(DocTags)}
        \cup {<<BlockEnd(DocTags[k])>> : k \in 1 .. Len(DocTags)}
        \cup {<<SP, BlockEnd(DocTags[1])>>}

RECURSIVE Joined(_, _, _)
Joined(lines, k, final_newline) ==
    IF k > Len(lines) THEN <<>>
    ELSE lines[k] \o (IF k < Len(lines) \/ final_newline THEN <<NL>> ELSE <<>>)
            \o Joined(lines, k + 1, final_newline)

Files(n) ==
    {NoFile} \cup
    UNION {{Joined(lines, 1, final_newline) :
               lines \in [1 .. len -> FileLines], final_newline \in BOOLEAN} : len \in 1 .. n}

InitDoc ==
    /\ parent = [c \in {0} |-> NoCommit]
    /\ repo_tags = <<>>
    /\ gen_all_docs = FALSE
    /\ component_tags = <<>>
    /\ pc = "grep_old_markdown_summary"
    /\ err = ""
    /\ select_component = <<>>
    /\ select_version = <<>>
    /\ open_vim = ""
    /\ gen_next = 0
    /\ commit_log = {}
    /\ component_text = <<>>
    /\ files_written = {}
    /\ git_ops = <<>>
    /\ run_script = <<>>
    /\ NotesIdle
    /\ release_notes \in Files(MaxLines)
    /\ tag_old_summary = <<>>
    /\ generated = <<>>

NextDoc == DocGrep \/ DocGenerate

SpecDoc == InitDoc /\ [][NextDoc]_vars

\* ------------------------------------------------------------------ claims
\* a is b or an ancestor of b; a is an ancestor of b.
AncOrSelf(a, b) == a \in Up(parent, b)
StrictAnc(a, b) == a # b /\ AncOrSelf(a, b)

\* The chains of the catalog.
Chains == {component_tags[k].tags : k \in 1 .. Len(component_tags)}
\* fetch_github_release has returned the catalog to main().
Fetched == pc = "command_prompt_step1"

\* C1: in every chain fetch_github_release built, the predecessor of a tag is
\* the nearest prior release of its lineage: the predecessor's commit is an
\* ancestor of the tag's commit, and no release chained before the tag has a
\* commit strictly between the two.
C1_NearestPriorRelease ==
    Fetched =>
        \A tags \in Chains : \A i \in 2 .. Len(tags) :
            HasLink(tags[i]) =>
                /\ AncOrSelf(tags[i].pre_tag_commit_id, tags[i].tag_commit_id)
                /\ ~\E k \in 1 .. i - 1 :
                      /\ StrictAnc(tags[i].pre_tag_commit_id, tags[k].tag_commit_id)
                      /\ StrictAnc(tags[k].tag_commit_id, tags[i].tag_commit_id)

\* C2: the predecessor recorded for a resolved tag is never the tag itself and
\* is the name of an entry chained strictly before it.
C2_PredecessorPrecedes ==
    Fetched =>
        \A tags \in Chains : \A i \in 2 .. Len(tags) :
            HasLink(tags[i]) =>
                /\ tags[i].pre_tag_name # tags[i].tag_name
                /\ \E k \in 1 .. i - 1 : tags[k].tag_name = tags[i].pre_tag_name

\* C3: resolution never finishes normally leaving a tag without a predecessor:
\* while the run has not been aborted by an error, every non-root tag of the
\* catalog carries its link.
C3_ExhaustedScanIsReported ==
    pc # "aborted" =>
        \A tags \in Chains : \A i \in 2 .. Len(tags) : HasLink(tags[i])

\* C4: when command_prompt_step1 returns, every non-root tag of every chain
\* carries its link, and every tag fetch_github_release resolved is still in
\* its chain, at its position, with the same link.
C4_OneLinkPerTagKept ==
    [][(pc = "command_prompt_step1" /\ pc' = "command_prompt_step2") =>
          /\ \A k \in 1 .. Len(component_tags') :
                \A i \in 2 .. Len(component_tags'[k].tags) :
                    HasLink(component_tags'[k].tags[i])
          /\ \A k \in 1 .. Len(component_tags) :
                /\ k <= Len(component_tags')
                /\ component_tags'[k].component = component_tags[k].component
                /\ \A i \in 1 .. Len(component_tags[k].tags) :
                      /\ i <= Len(component_tags'[k].tags)
                      /\ component_tags'[k].tags[i] = component_tags[k].tags[i]]_vars

\* The case of C5 for the tag at position i and the earlier release at position
\* r of a chain: the tag descends from r, from no release chained after r, and
\* the merge base with every candidate scanned before r is r's commit or a
\* commit no entry of the chain points to.
ForkCase(tags, i, r) ==
    /\ r < i
    /\ StrictAnc(tags[r].tag_commit_id, tags[i].tag_commit_id)
    /\ \A k \in (r + 1) .. Len(tags) :
          k # i => ~AncOrSelf(tags[k].tag_commit_id, tags[i].tag_commit_id)
    /\ \A j \in (r + 1) .. (i - 1) :
          LET lca == MergeBase(parent, tags[i].tag_commit_id, tags[j].tag_commit_id)
          IN  \/ lca = tags[r].tag_commit_id
              \/ \A k \in 1 .. Len(tags) : tags[k].tag_commit_id # lca

\* C5: in a fork topology the tag resolves to the release it descends from,
\* not to a more recently chained tag of another branch.
C5_ForkResolvesToBranchPoint ==
    Fetched =>
        \A tags \in Chains : \A i \in 2 .. Len(tags) : \A r \in 1 .. i - 1 :
            ForkCase(tags, i, r) =>
                /\ HasLink(tags[i])
                /\ tags[i].pre_tag_name = tags[r].tag_name
                /\ tags[i].pre_tag_commit_id = tags[r].tag_commit_id

\* C5's scenario: v1.0.1 and v1.1.0 both children of v1.0.0's commit, and
\* v1.1.0, chained last, resolved to v1.0.0.
C5_Witness ==
    /\ Fetched
    /\ \E tags \in Chains : \E i \in 3 .. Len(tags) : \E r \in 2 .. i - 2 :
          /\ ForkCase(tags, i, r)
          /\ MergeBase(parent, tags[i].tag_commit_id, tags[i - 1].tag_commit_id)
                = tags[r].tag_commit_id
          /\ parent[tags[i].tag_commit_id] = tags[r].tag_commit_id
          /\ parent[tags[i - 1].tag_commit_id] = tags[r].tag_commit_id
          /\ tags[i].pre_tag_name = tags[r].tag_name

\* C5's other scenario: the merge base with the more recent tag is an untagged
\* fork point, and the scan goes on to the older release.
C5_WitnessForkPoint ==
    /\ Fetched
    /\ \E tags \in Chains : \E i \in 3 .. Len(tags) : \E r \in 1 .. i - 2 :
          /\ ForkCase(tags, i, r)
          /\ \A k \in 1 .. Len(tags) :
                tags[k].tag_commit_id
                    # MergeBase(parent, tags[i].tag_commit_id, tags[i - 1].tag_commit_id)
          /\ tags[i].pre_tag_name = tags[r].tag_name

\* The path lies under the directory subtree components/<component>/.
UnderSubtree(path, component) ==
    StartsWith(path, <<"components", "/">> \o component \o <<"/">>)

\* The paths the commit of a ticket changes.
PathsOf(ticket) ==
    log_lines[CHOOSE k \in 1 .. Len(log_lines) :
                  log_lines[k].commit_id = ticket.commit_id].paths

\* C6: fetch_github_tickets includes no commit whose changed paths hold no path
\* under the subtree components/<component>/ of the release's component; a
\* commit that changes only files of a sibling directory whose name begins
\* with the component's name is left out.
C6_OnlySubtreeCommits ==
    \A t \in 1 .. Len(github_tickets) :
        \E k \in 1 .. Len(PathsOf(github_tickets[t])) :
            UnderSubtree(PathsOf(github_tickets[t])[k], ComponentOf(notes_tag.tag_name))

\* The release whose notes were generated last, as a catalog entry.
LastGenerated ==
    component_tags[ReleaseOrder[gen_next][1]].tags[ReleaseOrder[gen_next][2]]

\* C7: the recorded previous commit of a resolved tag is the tag's commit or an
\* ancestor of it, and the commits fetch_github_tickets lists for a release are
\* exactly those reachable from the tag's commit and not from the previous
\* release's commit.
C7_RangeIsTagMinusPredecessor ==
    /\ \A tags \in Chains : \A i \in 2 .. Len(tags) :
          HasLink(tags[i]) => AncOrSelf(tags[i].pre_tag_commit_id, tags[i].tag_commit_id)
    /\ (pc \in {"generate", "write_files"} /\ gen_next >= 1) =>
          commit_log = Up(parent, LastGenerated.tag_commit_id)
                          \ Up(parent, LastGenerated.pre_tag_commit_id)

\* A release resolved to an earlier release (not the root) was generated and
\* its range holds several commits.
C7_Witness ==
    /\ pc \in {"generate", "write_files"}
    /\ gen_next >= 1
    /\ LastGenerated.pre_tag_name # <<>>
    /\ LastGenerated.pre_tag_name # LastGenerated.tag_name
    /\ Cardinality(commit_log) >= 2

\* The requests of the current issue that were answered without success.
Failures == {k \in 1 .. Len(responses) : responses[k] # 200}

\* C8: for a ticket that names an issue, fetch_jira_tickets sends at most 3
\* requests and none after the first answered 200; after 3 answers other than
\* 200 the run ends with HTTPError, the ticket neither given a record nor
\* skipped; a wait follows each failed request and each wait is double the one
\* before it.
C8_BoundedRetries ==
    /\ Len(responses) <= 3
    /\ \A k \in 1 .. Len(responses) - 1 : responses[k] # 200
    /\ Cardinality(Failures) = 3 =>
          /\ pc = "aborted" /\ err = "HTTPError"
          /\ Len(jira_tickets) < Len(github_tickets)
          /\ github_tickets[Len(jira_tickets) + 1].ft # <<>>
          /\ rows = <<>>
    /\ err = "HTTPError" => Cardinality(Failures) = 3
    /\ pc = "fetch_jira_tickets" =>
          (attempt = 0 <=> (responses = <<>> \/ responses[Len(responses)] = 200))
    /\ Len(waits) = Cardinality(Failures)
    /\ \A k \in 2 .. Len(waits) : waits[k] = 2 * waits[k - 1]

\* An earlier issue was looked up at once; the next was answered three times
\* without success, with waits of 2, 4 and 8 seconds, and the run ended.
C8_Witness ==
    /\ pc = "aborted"
    /\ err = "HTTPError"
    /\ Len(jira_tickets) = 1
    /\ jira_tickets[1].jira_url = <<"JIRA_TICKET_URL", <<"F", "T", "-", "1">>>>
    /\ Len(responses) = 3
    /\ waits = <<2, 4, 8>>

\* The components whose notes the run generates.
SelectedComponents ==
    {k \in 1 .. Len(component_tags) :
        gen_all_docs \/ component_tags[k].component = select_component}

\* The text of every release of every selected component has been generated.
GeneratedAll ==
    \A k \in SelectedComponents : \A i \in 2 .. Len(component_tags[k].tags) :
        \E t \in 1 .. Len(component_text) :
            /\ component_text[t].component = component_tags[k].component
            /\ \E m \in 1 .. Len(component_text[t].releases) :
                  component_text[t].releases[m].tag_name = component_tags[k].tags[i].tag_name

\* C9: a release-notes file is written, and a git command of steps 3 and 4 is
\* run, only once the text of every release of every selected component has
\* been generated; a failed ticket lookup or a missing link ends the run with
\* no file written.
C9_AllOrNothing ==
    /\ (files_written # {} \/ git_ops # <<>>) => GeneratedAll
    /\ err \in {"KeyError", "HTTPError"} => (files_written = {} /\ git_ops = <<>>)

\* The files of two components were written and committed.
C9_Witness ==
    /\ Cardinality(files_written) >= 2
    /\ Len(ReleaseOrder) >= 2
    /\ git_ops # <<>>

\* What the Github cell of the row of a ticket links to.
LinkTarget(ticket) ==
    IF ticket.ft # <<>> /\ ticket.pull_id # <<>> THEN ticket.pull_id ELSE ticket.commit_id

\* The rows from the one at offset d + 1 on are those of the tickets, in order.
RowsFollowTickets(d) ==
    /\ Len(rows) = Len(github_tickets) + d
    /\ \A k \in 1 .. Len(rows) : Len(rows[k]) = 6
    /\ \A k \in 1 .. Len(github_tickets) :
          /\ rows[k + d][2] = github_tickets[k].ft
          /\ rows[k + d][5][3] = LinkTarget(github_tickets[k])

\* fetch_jira_tickets gives one record per identifier, in order, with empty
\* fields for an empty identifier.
OneRecordPerIdentifier ==
    /\ Len(jira_tickets) <= Len(github_tickets)
    /\ pc = "generated" => Len(jira_tickets) = Len(github_tickets)
    /\ \A k \in 1 .. Len(jira_tickets) :
          IF github_tickets[k].ft = <<>>
          THEN \A f \in DOMAIN jira_tickets[k] : jira_tickets[k][f] = <<>>
          ELSE jira_tickets[k].jira_url = <<"JIRA_TICKET_URL", github_tickets[k].ft>>

\* C10 as stated: the table of a release has as many rows as the commit scope
\* filter returned tickets, in the order of the tickets; fetch_jira_tickets
\* gives one record per identifier, in order, empty for an empty identifier.
C10_RowsMatchTickets ==
    /\ pc = "generated" => RowsFollowTickets(0)
    /\ OneRecordPerIdentifier

\* C10: the table of a release has a row per ticket of the commit scope
\* filter, in the order of the tickets, after one leading row "Release <tag>"
\* when the release is the newest one of the selected component;
\* fetch_jira_tickets gives one record per identifier, in order, empty for an
\* empty identifier.
C10_RowsMatchTicketsAfterReleaseRow ==
    /\ pc = "generated" =>
          /\ RowsFollowTickets(IF newest THEN 1 ELSE 0)
          /\ newest => (rows[1][2] = <<>> /\ rows[1][3] = <<"Release", notes_tag.tag_name>>)
    /\ OneRecordPerIdentifier

\* The table of the newest release of the selected component, with a ticket
\* that names no issue before one that does.
C10_Witness ==
    /\ pc = "generated"
    /\ newest
    /\ Len(github_tickets) = 2
    /\ github_tickets[1].ft = <<>>
    /\ github_tickets[2].ft # <<>>
    /\ Len(rows) = 3

\* The summary block of the tag in a text: what lies between the line of its
\* start marker and its end marker.
BlockContent(text, tag_name) ==
    LET at == CHOOSE k \in 1 .. Len(text) : text[k] = BlockStart(tag_name)
        ends == {k \in at .. Len(text) : text[k] = BlockEnd(tag_name)}
        to == IF ends = {} THEN Len(text) + 1 ELSE CHOOSE k \in ends : \A m \in ends : k <= m
    IN  SubSeq(text, at + 2, to - 1)

\* C11: the summary block of every tag in a generated document is reproduced
\* unchanged by every later regeneration from the document, and the summary
\* extracted for a tag from a generated document is the one that was put into
\* the block of that tag.
C11_SummaryRoundTrip ==
    /\ \A i \in 1 .. Len(generated) - 1 : \A k \in 1 .. Len(DocTags) :
          BlockContent(generated[i + 1], DocTags[k]) = BlockContent(generated[i], DocTags[k])
    /\ (pc = "generate_markdown_text" /\ generated # <<>>) =>
          \A k \in 1 .. Len(DocTags) :
              <<NL>> \o OldSummary(tag_old_summary, DocTags[k])
                  = BlockContent(generated[Len(generated)], DocTags[k])

\* The tag names of the component among the repository's tags, in creation order.
NamesOfComponent(component) ==
    LET OfComponent(tag_name) == ComponentOf(tag_name) = component
    IN  SelectSeq(get_release_tag_names_by_date(repo_tags), OfComponent)

\* The tag names a chain is to hold after its root: the component's tags and,
\* once command_prompt_step1 returned, the release it added to the component.
ExpectedNames(component) ==
    NamesOfComponent(component)
        \o (IF pc = "command_prompt_step2" /\ component = select_component
            THEN <<TAG_NAME(select_component, select_version)>>
            ELSE <<>>)

\* C12: after fetch_github_release and after command_prompt_step1, the first
\* entry of every chain is the root (empty name, the repository's first
\* commit), no other entry is a root, and the entries after it are the
\* component's tags in creation order, so that the chain is one longer than
\* the number of the component's tags.
C12_RootThenTagsInOrder ==
    pc \in {"command_prompt_step1", "command_prompt_step2"} =>
        \A e \in 1 .. Len(component_tags) :
            LET tags == component_tags[e].tags
                names == ExpectedNames(component_tags[e].component)
            IN  /\ tags[1] = RootTag(get_first_commit_id(parent))
                /\ \A i \in 2 .. Len(tags) : tags[i].tag_name # <<>>
                /\ Len(tags) = Len(names) + 1
                /\ \A i \in 1 .. Len(names) : tags[i + 1].tag_name = names[i]

\* No chain holds two entries of the same name.
NoDuplicateInChains ==
    \A tags \in Chains : \A i, j \in 1 .. Len(tags) :
        tags[i].tag_name = tags[j].tag_name => i = j

\* A step of command_prompt_step1 changes or creates a chain only to add a
\* release that is not among the repository's tags.
OnlyNewReleasesAdded ==
    pc = "command_prompt_step1" =>
        \A e \in 1 .. Len(component_tags') :
            \/ \E d \in 1 .. Len(component_tags) : component_tags[d] = component_tags'[e]
            \/ LET tags == component_tags'[e].tags
               IN  tags[Len(tags)].tag_name \notin get_release_tag_names_by_version(repo_tags)

\* C13: no chain ever holds two tags of the same component and version, and
\* command_prompt_step1, on either of its paths, leaves the catalog as it was
\* when the release typed is already among the repository's tags.
C13_DuplicateReleaseRejected ==
    []NoDuplicateInChains /\ [][OnlyNewReleasesAdded]_vars

\* The step is a return of command_prompt_step1 that appended a release to the
\* chain of a component of the catalog.
AppendedTo(e) ==
    /\ pc = "command_prompt_step1" /\ pc' = "command_prompt_step2"
    /\ e \in 1 .. Len(component_tags)
    /\ component_tags'[e].component = select_component'
    /\ Len(component_tags'[e].tags) = Len(component_tags[e].tags) + 1
    /\ SubSeq(component_tags'[e].tags, 1, Len(component_tags[e].tags)) = component_tags[e].tags

\* The appended release carries the predecessor the scan of
\* fetch_github_release finds for the last position of the chain.
AgreesWithFetchScan(tags) ==
    LET fetched == FetchScan(parent, tags, Len(tags))
        added == tags[Len(tags)]
    IN  IF fetched.kind = "found"
        THEN /\ HasLink(added)
             /\ added.pre_tag_name = fetched.name
             /\ added.pre_tag_commit_id = fetched.commit
        ELSE ~HasLink(added)

\* C14: the predecessor command_prompt_step1 records for the release it
\* appends to a chain, at the latest commit, is the one (name and commit) the
\* scan of fetch_github_release assigns to a tag at that commit in the last
\* position of the chain; where that scan resolves to the root, so does step 1.
C14_ScansAgree ==
    [][\A e \in 1 .. Len(component_tags) :
          AppendedTo(e) => AgreesWithFetchScan(component_tags'[e].tags)]_vars

\* The git commands of steps 3 and 4, in the order of the code.
ReleaseCommands == <<"add", "commit", "tag", "push_branch", "push_tag">>

\* The files of all selected components were written.
AllFilesWritten ==
    files_written = {component_tags[k].component : k \in SelectedComponents}

\* C15: the commands run so far are the first ones of add, commit, tag, push
\* branch, push tag, in this order, so the tag follows the commit of the
\* written files and the pushes follow the tag; the first three run only
\* after the files were written and the first question was answered y or
\* yes, the pushes only after the second question was answered y or yes as
\* well; an answer other than y, n, yes, no ends the run with ValueError
\* before any command of that question has run.
C15_ConfirmedCommandsInOrder ==
    /\ Len(git_ops) <= Len(ReleaseCommands)
    /\ git_ops = SubSeq(ReleaseCommands, 1, Len(git_ops))
    /\ git_ops # <<>> =>
          /\ AllFilesWritten /\ files_written # {}
          /\ run_script # <<>> /\ run_script[1] \in {"y", "yes"}
    /\ Len(git_ops) > 3 => (Len(run_script) = 2 /\ run_script[2] \in {"y", "yes"})
    /\ Len(run_script) = 2 => Len(git_ops) >= 3
    /\ \A q \in 1 .. Len(run_script) :
          run_script[q] \notin {"y", "n", "yes", "no"} =>
              /\ q = Len(run_script)
              /\ pc = "aborted" /\ err = "ValueError"
              /\ Len(git_ops) = (IF q = 1 THEN 0 ELSE 3)

\* Both questions were answered yes and all five commands have run.
C15_Witness ==
    /\ pc = "done"
    /\ git_ops = ReleaseCommands
    /\ Len(run_script) = 2
    /\ Cardinality(files_written) >= 1
====
